---- MODULE Spec2Model ----
(***************************************************************************)
(* A model of the RAG question-answering bot: the RAGEngine of             *)
(* rag_engine.py (vector store handle, conversation history, query        *)
(* pipeline), the two ingestion handlers of app.py that feed it, and the   *)
(* URL loader of document_loader.py.                                       *)
(*                                                                         *)
(* Strings of the source that are not ASCII are written in ASCII here:     *)
(*   "[src"   for the citation opener  "[" + shutsuten (U+51FA U+5178)     *)
(*   ", page" for the page marker      ", " + peeji (katakana)             *)
(*   "unknown" for the default source  fumei (U+4E0D U+660E)               *)
(*   "none"   for the empty-history marker nashi                           *)
(* Python values whose type matters (metadata["page"]) are tagged records. *)
(***************************************************************************)
EXTENDS Integers, Sequences, FiniteSets, TLC

VARIABLES
    vectorstore,    \* RAGEngine.vectorstore: None or the FAISS store
    chat_history,   \* RAGEngine.chat_history: sequence of <<question, answer>>
    pending,        \* app.py upload loop: uploaded files not yet processed
    statuses,       \* app.py upload loop: st.success / st.error shown so far
    op,             \* the handler that ran last
    question,       \* the question of the last query
    answer,         \* the text the last query returned
    sources,        \* the documents the last query returned
    prompt,         \* the messages the last query handed to llm.invoke
    invoked,        \* number of llm.invoke calls the last handler made
    raised,         \* whether the last handler's engine call raised
    backend,        \* what llm.invoke did in the last handler: idle, returned, failed
    cleared,        \* what the clear handler that ran last discarded
    batchSum,       \* sizes of the batches added successfully since the last clear_all
    answered,       \* queries answered since the last clear_history / clear_all
    loader,         \* load_url run on its own: the page it was given and its result
    formatted       \* _format_context run on its own: its documents and its result

vars == <<vectorstore, chat_history, pending, statuses, op, question, answer,
          sources, prompt, invoked, raised, backend, cleared, batchSum, answered,
          loader, formatted>>

engineVars == <<vectorstore, chat_history, pending, statuses, op, question, answer,
                sources, prompt, invoked, raised, backend, cleared, batchSum, answered>>

(***************************************************************************)
(* Bounds of the model.                                                    *)
(***************************************************************************)
MaxChunks == 3
MaxHistory == 2
MaxFiles == 2
MaxDocs == 2

Min(a, b) == IF a < b THEN a ELSE b

(***************************************************************************)
(* Python values.                                                          *)
(***************************************************************************)
None == <<>>
Some(v) == <<v>>

PyInt(n) == [t |-> "int", v |-> n]
PyStr(s) == [t |-> "str", s |-> s]
PyNone == [t |-> "none"]

\* Python truth value of an int, a str or None
Truthy(p) ==
    CASE p.t = "int" -> p.v # 0
      [] p.t = "str" -> p.s # ""
      [] OTHER -> FALSE

\* dict.get(key, default)
Get(d, key, default) == IF key \in DOMAIN d THEN d[key] ELSE default

\* a text is known by where it came from and by its length
Text(id, n) == [id |-> id, len |-> n]

Document(text, metadata) == [page_content |-> text, metadata |-> metadata]

(***************************************************************************)
(* rag_engine.py: prompt formatting.                                       *)
(***************************************************************************)
GuidanceMsg == "no documents registered yet: upload a file or add a URL first"
NoRelevantMsg == "no relevant information found"
NoAnswer == ""

\* the citation tag of the document at 1-based rank i, as its pieces in order
SourceInfo(i, doc) ==
    LET source == Get(doc.metadata, "source", "unknown")
        page == Get(doc.metadata, "page", PyStr(""))
        head == <<"[src", ToString(i), ": ", source>>
        withPage == IF Truthy(page)
                    THEN head \o <<", page", ToString(page.v + 1)>>
                    ELSE head
    IN  withPage \o <<"]">>

\* one block <<source_info, page_content>> per document, in rank order
_format_context(documents) ==
    [i \in 1..Len(documents) |->
        <<SourceInfo(i, documents[i]), documents[i].page_content>>]

\* "none" for an empty history, else a user line and an assistant line per turn
_format_chat_history(history) ==
    IF history = <<>>
    THEN <<"none">>
    ELSE [n \in 1..(2 * Len(history)) |->
            IF n % 2 = 1
            THEN <<"user: ", history[(n + 1) \div 2][1]>>
            ELSE <<"assistant: ", history[n \div 2][2]>>]

format_messages(context, history, q) ==
    [context |-> context, chat_history |-> history, question |-> q]

(***************************************************************************)
(* The FAISS store as rag_engine.py uses it.  The store is its docstore:   *)
(* one entry per added document under a fresh id, here the position.       *)
(* embedOk says whether the embedding backend answered.                    *)
(***************************************************************************)
Ok(v) == [raised |-> FALSE, value |-> v]
Raise == [raised |-> TRUE, value |-> None]

\* mutant: the index is built before the batch is looked at, so an empty
\* batch leaves a store without documents
FAISS_from_documents_empty(documents, embedOk) ==
    IF ~embedOk THEN Raise ELSE Ok([docstore |-> documents])

\* FAISS.from_documents: embeds the batch, sizes the index from the first
\* embedding (so an empty batch raises), and stores every document
FAISS_from_documents(documents, embedOk) ==
    IF ~embedOk \/ documents = <<>>
    THEN Raise
    ELSE Ok([docstore |-> documents])

\* FAISS.add_documents: embeds the batch, then appends it; emptyRaises is
\* whether the index rejects an empty batch (the store is the same either way)
FAISS_add_documents(store, documents, embedOk, emptyRaises) ==
    IF ~embedOk \/ (documents = <<>> /\ emptyRaises)
    THEN Raise
    ELSE Ok([docstore |-> store.docstore \o documents])

\* the rankings a nearest-neighbour search may return: min(k, n) distinct
\* entries of the docstore, in any order
Rankings(store, k) ==
    LET n == Len(store.docstore)
        m == Min(k, n)
        picks == {s \in [1..m -> 1..n] : \A i, j \in 1..m : i # j => s[i] # s[j]}
    IN  {[i \in 1..m |-> store.docstore[s[i]]] : s \in picks}

\* FAISS.similarity_search: embeds the query, then ranks; a k below 1 is
\* rejected by the index or yields nothing
similarity_search(store, k) ==
    {Raise} \cup (IF k < 1 THEN {Ok(<<>>)} ELSE {Ok(r) : r \in Rankings(store, k)})

(***************************************************************************)
(* rag_engine.py: RAGEngine.                                               *)
(***************************************************************************)
\* mutant: every call rebuilds the store from its own batch
add_documents_rebuild(vs, documents, embedOk, emptyRaises) ==
    LET r == FAISS_from_documents(documents, embedOk)
    IN  IF r.raised THEN Raise ELSE Ok(Some(r.value))

\* add_documents: the new value of self.vectorstore, or the exception
add_documents(vs, documents, embedOk, emptyRaises) ==
    IF vs = None
    THEN LET r == FAISS_from_documents(documents, embedOk)
         IN  IF r.raised THEN Raise ELSE Ok(Some(r.value))
    ELSE LET r == FAISS_add_documents(vs[1], documents, embedOk, emptyRaises)
         IN  IF r.raised THEN Raise ELSE Ok(Some(r.value))

\* search: the possible outcomes
search(vs, k) ==
    IF vs = None THEN {Ok(<<>>)} ELSE similarity_search(vs[1], k)

document_count(vs) ==
    IF vs = None THEN 0 ELSE Len(vs[1].docstore)

(***************************************************************************)
(* document_loader.py.  A fetched page is what load_url sees of it: the    *)
(* HTTP status, the page title, and what the two extractors return for its *)
(* HTML (None, or the cleaned text).                                       *)
(***************************************************************************)
MinPrimaryLen == 100
MinContentLen == 50

len(text) == text.len

\* Python truth value of an Optional[str]
HasText(content) == content # None /\ len(content[1]) > 0

\* len(content or "")
LenOrEmpty(content) == IF HasText(content) THEN len(content[1]) ELSE 0

LoadOk(docs, content, bs_called) ==
    [raised |-> FALSE, error |-> "", docs |-> docs, content |-> content,
     bs_called |-> bs_called]
LoadError(kind, content, bs_called) ==
    [raised |-> TRUE, error |-> kind, docs |-> <<>>, content |-> content,
     bs_called |-> bs_called]

\* whether load_url falls back to BeautifulSoup for this primary output
NeedsFallback(content) == ~HasText(content) \/ len(content[1]) < MinPrimaryLen

\* mutant: the fallback output replaces the primary one whenever it has text
FinalContent_fallback_wins(primary, fallback) ==
    IF NeedsFallback(primary)
    THEN IF HasText(fallback) THEN fallback ELSE primary
    ELSE primary

\* the text load_url keeps once the fallback, if any, has run
FinalContent(primary, fallback) ==
    IF NeedsFallback(primary)
    THEN IF HasText(fallback) /\ len(fallback[1]) > LenOrEmpty(primary)
         THEN fallback
         ELSE primary
    ELSE primary

\* whether load_url rejects the final text
Insufficient(content) == ~HasText(content) \/ len(content[1]) < MinContentLen

load_url(url, page) ==
    IF ~page.status_ok
    THEN LoadError("HTTPError", None, FALSE)
    ELSE LET title == IF page.title # "" THEN page.title ELSE url
             bs_called == NeedsFallback(page.primary)
             content == FinalContent(page.primary, page.fallback)
         IN  IF Insufficient(content)
             THEN LoadError("ValueError", content, bs_called)
             ELSE LoadOk(<<Document(content[1], [source |-> url, title |-> title])>>,
                         content, bs_called)

\* split_documents for texts that fit one chunk (chunk_size is 500): a text
\* of 1..500 characters is one chunk with its document's metadata, an empty
\* text gives no chunk
split_documents(documents) ==
    SelectSeq(documents, LAMBDA d : len(d.page_content) > 0)

\* process_url: the chunks, or the exception of load_url
process_url(url, page) ==
    LET r == load_url(url, page)
    IN  IF r.raised THEN Raise ELSE Ok(split_documents(r.docs))

\* an uploaded file: its name, whether its loader can read it, and the text
\* of each page (one page for a text file)
UploadedFile(name, readable, pages) ==
    [name |-> name, readable |-> readable, pages |-> pages]

\* Path(file_path).suffix.lower(), for the names of the model
Suffix(name) ==
    CASE name \in {"a.pdf", "x.pdf"} -> ".pdf"
      [] name \in {"b.txt", "e.txt"} -> ".txt"
      [] name = "n.md" -> ".md"
      [] OTHER -> ".csv"

\* PyPDFLoader.load: one document per page, with its 0-based page index
load_pdf(file_path, file) ==
    IF ~file.readable
    THEN Raise
    ELSE Ok([i \in 1..Len(file.pages) |->
                Document(file.pages[i], [source |-> file_path, page |-> PyInt(i - 1)])])

\* TextLoader.load: the whole text as one document
load_text(file_path, file) ==
    IF ~file.readable
    THEN Raise
    ELSE Ok(<<Document(file.pages[1], [source |-> file_path])>>)

load_document(file_path, file) ==
    LET ext == Suffix(file.name)
    IN  IF ext = ".pdf" THEN load_pdf(file_path, file)
        ELSE IF ext \in {".txt", ".md"} THEN load_text(file_path, file)
        ELSE Raise

\* os.path.join(save_dir, uploaded_file.name) with save_dir = "data"
SavedPath(name) ==
    CASE name = "a.pdf" -> "data/a.pdf"
      [] name = "x.pdf" -> "data/x.pdf"
      [] name = "b.txt" -> "data/b.txt"
      [] name = "e.txt" -> "data/e.txt"
      [] name = "n.md" -> "data/n.md"
      [] OTHER -> "data/other"

process_uploaded_file(file) ==
    LET r == load_document(SavedPath(file.name), file)
    IN  IF r.raised THEN Raise ELSE Ok(split_documents(r.value))

(***************************************************************************)
(* The inputs of the model.                                                *)
(***************************************************************************)
Questions == {"q1", "q2"}
Answers == {"a1"}
Ks == {0, 1, 4}
Url == "https://example.com/doc"

Files ==
    {UploadedFile("a.pdf", TRUE, <<Text("a.pdf", 200), Text("a.pdf", 200)>>),
     UploadedFile("b.txt", TRUE, <<Text("b.txt", 300)>>),
     UploadedFile("e.txt", TRUE, <<Text("e.txt", 0)>>),
     UploadedFile("x.pdf", FALSE, <<>>)}

SeqsUpTo(S, n) == UNION {[1..m -> S] : m \in 1..n}

Uploads == SeqsUpTo(Files, MaxFiles)

\* the pages the URL handler of the engine model is tried on
AppPages ==
    {[status_ok |-> TRUE, title |-> "T", primary |-> Some(Text("primary", 120)),
      fallback |-> None],
     [status_ok |-> TRUE, title |-> "T", primary |-> None,
      fallback |-> Some(Text("fallback", 30))],
     [status_ok |-> FALSE, title |-> "", primary |-> None, fallback |-> None]}

RECURSIVE PagesOf(_)
PagesOf(files) ==
    IF files = <<>> THEN 0 ELSE Len(Head(files).pages) + PagesOf(Tail(files))

NoCall == [context |-> <<>>, chat_history |-> <<>>, question |-> ""]
Idle == [phase |-> "idle"]
Nothing == [chunks |-> 0, turns |-> 0]

Init ==
    /\ vectorstore = None
    /\ chat_history = <<>>
    /\ pending = <<>>
    /\ statuses = <<>>
    /\ op = "init"
    /\ question = ""
    /\ answer = NoAnswer
    /\ sources = <<>>
    /\ prompt = NoCall
    /\ invoked = 0
    /\ raised = FALSE
    /\ backend = "idle"
    /\ cleared = Nothing
    /\ batchSum = 0
    /\ answered = 0
    /\ loader = Idle
    /\ formatted = Idle

\* what a handler other than query leaves of the last query's record
NoQuery ==
    /\ question' = ""
    /\ answer' = NoAnswer
    /\ sources' = <<>>
    /\ prompt' = NoCall
    /\ invoked' = 0
    /\ backend' = "idle"

(***************************************************************************)
(* app.py: the ingestion handlers.                                         *)
(***************************************************************************)
\* the "add files" button: the loop over uploaded_files starts
UploadStart ==
    /\ pending = <<>>
    /\ \E files \in Uploads :
        /\ document_count(vectorstore) + PagesOf(files) <= MaxChunks
        /\ pending' = files
    /\ statuses' = <<>>
    /\ op' = "upload"
    /\ raised' = FALSE
    /\ cleared' = Nothing
    /\ NoQuery
    /\ UNCHANGED <<vectorstore, chat_history, batchSum, answered, loader, formatted>>

\* mutant: no try/except around the iteration, the first error ends the loop
ProcessFile_abort ==
    /\ pending # <<>>
    /\ \E embedOk \in BOOLEAN, emptyRaises \in BOOLEAN :
        LET docs == process_uploaded_file(Head(pending))
            added == IF docs.raised
                     THEN Raise
                     ELSE add_documents(vectorstore, docs.value, embedOk, emptyRaises)
        IN  IF added.raised
            THEN /\ statuses' = Append(statuses, <<Head(pending).name, "error">>)
                 /\ raised' = TRUE
                 /\ pending' = <<>>
                 /\ UNCHANGED <<vectorstore, batchSum>>
            ELSE /\ vectorstore' = added.value
                 /\ statuses' = Append(statuses, <<Head(pending).name, "success">>)
                 /\ raised' = FALSE
                 /\ pending' = Tail(pending)
                 /\ batchSum' = batchSum + Len(docs.value)
    /\ op' = "add_file"
    /\ cleared' = Nothing
    /\ NoQuery
    /\ UNCHANGED <<chat_history, answered, loader, formatted>>

\* one iteration of the loop: process the file, add its chunks, and show
\* success, or show the error of whichever of the two raised
ProcessFile ==
    /\ pending # <<>>
    /\ \E embedOk \in BOOLEAN, emptyRaises \in BOOLEAN :
        LET docs == process_uploaded_file(Head(pending))
            added == IF docs.raised
                     THEN Raise
                     ELSE add_documents(vectorstore, docs.value, embedOk, emptyRaises)
        IN  IF added.raised
            THEN /\ statuses' = Append(statuses, <<Head(pending).name, "error">>)
                 /\ raised' = TRUE
                 /\ UNCHANGED <<vectorstore, batchSum>>
            ELSE /\ vectorstore' = added.value
                 /\ statuses' = Append(statuses, <<Head(pending).name, "success">>)
                 /\ raised' = FALSE
                 /\ batchSum' = batchSum + Len(docs.value)
    /\ pending' = Tail(pending)
    /\ op' = "add_file"
    /\ cleared' = Nothing
    /\ NoQuery
    /\ UNCHANGED <<chat_history, answered, loader, formatted>>

\* the "add URL" button
AddUrl ==
    /\ pending = <<>>
    /\ document_count(vectorstore) < MaxChunks
    /\ \E page \in AppPages, embedOk \in BOOLEAN, emptyRaises \in BOOLEAN :
        LET docs == process_url(Url, page)
            added == IF docs.raised
                     THEN Raise
                     ELSE add_documents(vectorstore, docs.value, embedOk, emptyRaises)
        IN  IF added.raised
            THEN /\ statuses' = <<<<Url, "error">>>>
                 /\ raised' = TRUE
                 /\ UNCHANGED <<vectorstore, batchSum>>
            ELSE /\ vectorstore' = added.value
                 /\ statuses' = <<<<Url, "success">>>>
                 /\ raised' = FALSE
                 /\ batchSum' = batchSum + Len(docs.value)
    /\ op' = "add_url"
    /\ cleared' = Nothing
    /\ NoQuery
    /\ UNCHANGED <<chat_history, pending, answered, loader, formatted>>

(***************************************************************************)
(* rag_engine.py: query, clear_history, clear_all, as app.py calls them.   *)
(***************************************************************************)
\* what llm.invoke may do: fail, or return a response with some content
LlmOutcomes == {Raise} \cup {Ok(a) : a \in Answers}

\* how a call of query ends: what it returns or that it raised, the messages
\* it gave llm.invoke and how often, what the model did, and the history after
Outcome(text, docs, messages, calls, llm, exc, history) ==
    [answer |-> text, sources |-> docs, prompt |-> messages, invoked |-> calls,
     backend |-> llm, raised |-> exc, chat_history |-> history]

\* mutant: the guidance message is recorded as a turn
EmptyReply_recorded(history, q) ==
    Outcome(GuidanceMsg, <<>>, NoCall, 0, "idle", FALSE,
            Append(history, <<q, GuidanceMsg>>))

\* no vector store yet: the guidance message, no sources
EmptyReply(history, q) ==
    Outcome(GuidanceMsg, <<>>, NoCall, 0, "idle", FALSE, history)

\* the search found nothing
NoMatchReply(history, q) ==
    Outcome(NoRelevantMsg, <<>>, NoCall, 0, "idle", FALSE, history)

\* the exception of the search leaves query
SearchFailed(history, q) ==
    Outcome(NoAnswer, <<>>, NoCall, 0, "idle", TRUE, history)

\* mutant: the call is tried a second time before the exception leaves query
GenerationFailed_retry(history, q, messages) ==
    Outcome(NoAnswer, <<>>, messages, 2, "failed", TRUE, history)

\* the exception of llm.invoke leaves query
GenerationFailed(history, q, messages) ==
    Outcome(NoAnswer, <<>>, messages, 1, "failed", TRUE, history)

\* mutant: the new turn is put in front of the history
Answered_prepend(history, q, docs, messages, content) ==
    Outcome(content, docs, messages, 1, "returned", FALSE,
            <<<<q, content>>>> \o history)

\* the answer is appended to the history and returned with the documents
Answered(history, q, docs, messages, content) ==
    Outcome(content, docs, messages, 1, "returned", FALSE,
            Append(history, <<q, content>>))

\* query: the ways the call can end
query(vs, history, q, k) ==
    IF vs = None
    THEN {EmptyReply(history, q)}
    ELSE UNION {
        IF relevant_docs.raised
        THEN {SearchFailed(history, q)}
        ELSE IF relevant_docs.value = <<>>
        THEN {NoMatchReply(history, q)}
        ELSE LET context == _format_context(relevant_docs.value)
                 formatted_history == _format_chat_history(history)
                 messages == format_messages(context, formatted_history, q)
             IN  {IF response.raised
                  THEN GenerationFailed(history, q, messages)
                  ELSE Answered(history, q, relevant_docs.value, messages,
                                response.value) : response \in LlmOutcomes}
        : relevant_docs \in search(vs, k)}

\* the chat input of app.py
Query ==
    /\ pending = <<>>
    /\ \E q \in Questions, k \in Ks :
        \E r \in query(vectorstore, chat_history, q, k) :
            /\ Len(r.chat_history) <= MaxHistory
            /\ question' = q
            /\ answer' = r.answer
            /\ sources' = r.sources
            /\ prompt' = r.prompt
            /\ invoked' = r.invoked
            /\ backend' = r.backend
            /\ raised' = r.raised
            /\ chat_history' = r.chat_history
            /\ answered' = IF r.backend = "returned" THEN answered + 1 ELSE answered
    /\ op' = "query"
    /\ statuses' = <<>>
    /\ cleared' = Nothing
    /\ UNCHANGED <<vectorstore, pending, batchSum, loader, formatted>>

\* mutant: clear_history resets the vector store too
clear_history_all ==
    /\ pending = <<>>
    /\ vectorstore' = None
    /\ chat_history' = <<>>
    /\ answered' = 0
    /\ op' = "clear_history"
    /\ statuses' = <<>>
    /\ raised' = FALSE
    /\ cleared' = [chunks |-> 0, turns |-> Len(chat_history)]
    /\ NoQuery
    /\ UNCHANGED <<pending, batchSum, loader, formatted>>

\* the "clear history" button
clear_history ==
    /\ pending = <<>>
    /\ chat_history' = <<>>
    /\ answered' = 0
    /\ op' = "clear_history"
    /\ statuses' = <<>>
    /\ raised' = FALSE
    /\ cleared' = [chunks |-> 0, turns |-> Len(chat_history)]
    /\ NoQuery
    /\ UNCHANGED <<vectorstore, pending, batchSum, loader, formatted>>

\* mutant: clear_all forgets the vector store
clear_all_history_only ==
    /\ pending = <<>>
    /\ chat_history' = <<>>
    /\ batchSum' = 0
    /\ answered' = 0
    /\ op' = "clear_all"
    /\ statuses' = <<>>
    /\ raised' = FALSE
    /\ cleared' = [chunks |-> document_count(vectorstore), turns |-> Len(chat_history)]
    /\ NoQuery
    /\ UNCHANGED <<vectorstore, pending, loader, formatted>>

\* the "reset all" button
clear_all ==
    /\ pending = <<>>
    /\ vectorstore' = None
    /\ chat_history' = <<>>
    /\ batchSum' = 0
    /\ answered' = 0
    /\ op' = "clear_all"
    /\ statuses' = <<>>
    /\ raised' = FALSE
    /\ cleared' = [chunks |-> document_count(vectorstore), turns |-> Len(chat_history)]
    /\ NoQuery
    /\ UNCHANGED <<pending, loader, formatted>>

Next ==
    \/ UploadStart
    \/ ProcessFile
    \/ AddUrl
    \/ Query
    \/ clear_history
    \/ clear_all

Spec == Init /\ [][Next]_vars

(***************************************************************************)
(* load_url on its own: every page of WebPages.                            *)
(***************************************************************************)
\* lengths around the two thresholds of load_url
TextLens == {0, 49, 50, 51, 99, 100, 101, 120}

OptText(id) == {None} \cup {Some(Text(id, n)) : n \in TextLens}

WebPages ==
    {[status_ok |-> TRUE, title |-> t, primary |-> p, fallback |-> f] :
        t \in {"", "T"}, p \in OptText("primary"), f \in OptText("fallback")}
    \cup {[status_ok |-> FALSE, title |-> "", primary |-> None, fallback |-> None]}

LoadUrl ==
    /\ \E page \in WebPages :
        loader' = [phase |-> "done", url |-> Url, page |-> page,
                   result |-> load_url(Url, page)]
    /\ UNCHANGED <<engineVars, formatted>>

SpecUrl == Init /\ [][LoadUrl]_vars

(***************************************************************************)
(* _format_context on its own: every list of up to MaxDocs documents.      *)
(***************************************************************************)
Metadatas ==
    {[source |-> "data/a.pdf"], [title |-> "T"]}
    \cup {[source |-> "data/a.pdf", page |-> p] : p \in {PyNone, PyInt(0), PyInt(1), PyInt(2)}}
    \cup {[title |-> "T", page |-> p] : p \in {PyNone, PyInt(0), PyInt(1), PyInt(2)}}

RetrievedDocs == {Document(Text("chunk", 200), m) : m \in Metadatas}

FormatContext ==
    /\ \E documents \in SeqsUpTo(RetrievedDocs, MaxDocs) :
        formatted' = [phase |-> "done", documents |-> documents,
                      context |-> _format_context(documents)]
    /\ UNCHANGED <<engineVars, loader>>

SpecFormat == Init /\ [][FormatContext]_vars

(***************************************************************************)
(* The claims.                                                             *)
(***************************************************************************)
IsPrefix(a, b) == Len(a) <= Len(b) /\ SubSeq(b, 1, Len(a)) = a

Docstore(vs) == IF vs = None THEN <<>> ELSE vs[1].docstore

\* C1: clear_all leaves document_count at 0, whatever the engine held, and
\* the query that follows it returns the guidance message and no sources,
\* for every question and every k.
C1_ClearAllResets ==
    [][/\ (op' = "clear_all" => document_count(vectorstore') = 0)
       /\ (op = "clear_all" /\ op' = "query"
            => answer' = GuidanceMsg /\ sources' = <<>> /\ ~raised')]_vars

C1_Witness ==
    /\ op = "clear_all"
    /\ cleared.chunks >= 2
    /\ cleared.turns >= 1
    /\ document_count(vectorstore) = 0

\* C2: a query while there is no vector store leaves the history as it was,
\* does not call llm.invoke, and returns the guidance message and no sources.
C2_EmptyQueryFrame ==
    [][vectorstore = None /\ op' = "query"
        => /\ chat_history' = chat_history
           /\ invoked' = 0
           /\ backend' = "idle"
           /\ ~raised'
           /\ answer' = GuidanceMsg
           /\ sources' = <<>>]_vars

C2_Witness ==
    /\ op = "query"
    /\ vectorstore = None
    /\ question = "q2"
    /\ answer = GuidanceMsg

\* C3: document_count is the sum of the sizes of the batches added
\* successfully since creation or the last clear_all.
C3_CountIsSumOfBatches ==
    document_count(vectorstore) = batchSum

C3_Witness ==
    /\ op = "add_file"
    /\ statuses = << <<"a.pdf", "success">>, <<"b.txt", "success">> >>
    /\ document_count(vectorstore) = 3
    /\ batchSum = 3

\* C4: clear_history empties the history and leaves the vector store, its
\* documents and document_count as they were.
C4_ClearHistoryFrame ==
    [][op' = "clear_history"
        => /\ chat_history' = <<>>
           /\ vectorstore' = vectorstore
           /\ document_count(vectorstore') = document_count(vectorstore)]_vars

C4_Witness ==
    /\ op = "clear_history"
    /\ cleared.turns >= 1
    /\ document_count(vectorstore) >= 2
    /\ chat_history = <<>>

\* C5: a query that retrieved documents and whose llm.invoke returned
\* appends exactly the turn (question, returned answer) at the end of the
\* history; but for clear_history and clear_all the history only grows at
\* its end; its length is the number of queries answered since the last clear.
C5_HistoryAppendOnly ==
    /\ Len(chat_history) = answered
    /\ [][/\ Len(chat_history') = answered'
          /\ (op' = "query" /\ backend' = "returned"
                => /\ sources' # <<>>
                   /\ chat_history' = Append(chat_history, <<question', answer'>>))
          /\ (op' \notin {"clear_history", "clear_all"}
                => IsPrefix(chat_history, chat_history'))
          /\ (op' = "query" /\ backend' # "returned"
                => chat_history' = chat_history)]_vars

C5_Witness ==
    /\ op = "query"
    /\ backend = "returned"
    /\ Len(chat_history) = 2
    /\ answered = 2
    /\ chat_history[1][1] # chat_history[2][1]
    /\ chat_history[2] = <<question, answer>>

\* a citation tag shows the page number n
ShowsPage(tag, n) ==
    \E j \in 1..(Len(tag) - 1) : tag[j] = ", page" /\ tag[j + 1] = ToString(n)

\* a citation tag has some page suffix
HasPageSuffix(tag) == \E j \in 1..Len(tag) : tag[j] = ", page"

\* the metadata has a page index
HasPageIndex(metadata) == "page" \in DOMAIN metadata /\ metadata.page.t = "int"

\* C6: the citation tag of every document with a page index (0, 1, 2, ...)
\* shows page + 1, and the tag of a document without one has no page suffix.
C6_PageSuffixIffPage ==
    formatted.phase = "done" =>
        \A i \in 1..Len(formatted.documents) :
            LET metadata == formatted.documents[i].metadata
                tag == formatted.context[i][1]
            IN  IF HasPageIndex(metadata)
                THEN ShowsPage(tag, metadata.page.v + 1)
                ELSE ~HasPageSuffix(tag)

\* C7: when llm.invoke fails, query raises, llm.invoke was called once, and
\* the history and the vector store are as before the query.
C7_GenerationFailurePropagates ==
    [][op' = "query" /\ backend' = "failed"
        => /\ raised'
           /\ invoked' = 1
           /\ chat_history' = chat_history
           /\ vectorstore' = vectorstore]_vars

C7_Witness ==
    /\ op = "query"
    /\ backend = "failed"
    /\ raised
    /\ invoked = 1
    /\ chat_history # <<>>

\* C8: an ingestion that fails leaves the vector store as the earlier
\* successful ones made it; one that succeeds adds its whole batch behind
\* them; and the upload loop goes on to the next file either way.
C8_AddAllOrNothing ==
    [][/\ (op' \in {"add_file", "add_url"} /\ raised'
            => /\ vectorstore' = vectorstore
               /\ statuses'[Len(statuses')][2] = "error")
       /\ (op' \in {"add_file", "add_url"} /\ ~raised'
            => /\ vectorstore' # None
               /\ IsPrefix(Docstore(vectorstore), Docstore(vectorstore'))
               /\ statuses'[Len(statuses')][2] = "success")
       /\ (op' = "add_file" /\ ~raised'
            => document_count(vectorstore')
                 = document_count(vectorstore)
                     + Len(SelectSeq(Head(pending).pages, LAMBDA t : t.len > 0)))
       /\ (op' = "add_file"
            => /\ pending' = Tail(pending)
               /\ Len(statuses') = Len(statuses) + 1)]_vars

C8_Witness ==
    /\ op = "add_file"
    /\ pending = <<>>
    /\ Len(statuses) = 2
    /\ statuses[1] = <<"x.pdf", "error">>
    /\ statuses[2] = <<"a.pdf", "success">>
    /\ document_count(vectorstore) = 3

\* C9: the vector store is present exactly when it holds at least one
\* document, also after an empty batch and after a first add that failed.
C9_IndexedIffNonEmpty ==
    (vectorstore # None) <=> (document_count(vectorstore) >= 1)

C9_Witness ==
    /\ op = "add_file"
    /\ statuses = << <<"e.txt", "error">> >>
    /\ vectorstore = None
    /\ document_count(vectorstore) = 0

\* C10: load_url runs the fallback extractor only when the primary output is
\* missing or under 100 characters; when both outputs exist the final text
\* is the longer one; it fails with the insufficient-content error exactly
\* when the final text is missing or under 50 characters, and otherwise
\* returns one document with the final text and the URL as source.
C10_LoadUrl ==
    (loader.phase = "done" /\ loader.page.status_ok) =>
        LET primary == loader.page.primary
            fallback == loader.page.fallback
            r == loader.result
            short == ~HasText(r.content) \/ r.content[1].len < 50
        IN  /\ r.bs_called <=> (~HasText(primary) \/ primary[1].len < 100)
            /\ (r.bs_called /\ HasText(primary) /\ HasText(fallback))
                 => /\ r.content \in {primary, fallback}
                    /\ r.content[1].len >= primary[1].len
                    /\ r.content[1].len >= fallback[1].len
            /\ r.raised <=> short
            /\ r.raised => r.error = "ValueError" /\ r.docs = <<>>
            /\ ~r.raised
                 => /\ Len(r.docs) = 1
                    /\ r.docs[1].page_content = r.content[1]
                    /\ r.docs[1].metadata.source = loader.url

C10_Witness ==
    /\ loader.phase = "done"
    /\ loader.page.status_ok
    /\ loader.result.bs_called
    /\ HasText(loader.page.primary)
    /\ HasText(loader.page.fallback)
    /\ loader.page.fallback[1].len > loader.page.primary[1].len
    /\ ~loader.result.raised
    /\ loader.result.docs[1].page_content = loader.page.fallback[1]

====
